---- MODULE Spec2Model ----
(***************************************************************************)
(* Capital Jeopardy: the App component (search pipeline, filters, answers, *)
(* favorites, persisted snapshot) as a state machine.                      *)
(*                                                                         *)
(* JavaScript runs one handler or one promise continuation at a time, so   *)
(* every action below is one such uninterrupted piece of code: an event    *)
(* handler up to its first network await, or the continuation that runs    *)
(* when a fetch settles up to the next network await.                      *)
(***************************************************************************)
EXTENDS Integers, Sequences, FiniteSets, Bags, TLC

VARIABLES
    state,      \* this.state of the App component
    storage,    \* localStorage item 'app-state'
    runs,       \* the onSearch calls in flight: a bag of their locals
    source,     \* what the run that committed last had read from the service
    cards       \* this.state of the Category components of the board, in order

vars == <<state, storage, runs, source, cards>>

(* ---------------------------- bounds ---------------------------------- *)

\* largest number of onSearch runs in flight at once
MaxRuns == 2
\* longest clue response drawn in SpecAnyClues
MaxClues == 3

(* --------------------------- constants -------------------------------- *)

MAX_CATEGORIES == 12

\* JSON null / absent value of a clue
NULL == -1

\* an undefined date filter
UNDEFINED == "undefined"

\* the value of localStorage.getItem when the key was never written
NoSnapshot == [absent |-> TRUE]

INITIAL_STATE ==
    [ filters    |-> [min_date |-> UNDEFINED, max_date |-> UNDEFINED, value |-> "any"],
      searchText |-> "",
      categories |-> <<>>,
      answered   |-> <<>>,
      favorites  |-> <<>>,
      searching  |-> FALSE ]

(* ------------------------ the remote service --------------------------- *)

CategoryIds == {1, 2, 3}
Questions   == {"Q1", "Q2", "Q3"}
RawValues   == {NULL, 0, 100, 200}

\* a clue object as the clues endpoint returns it
Clue(c, q, v) ==
    [ id       |-> <<c, q, v>>,
      question |-> q,
      answer   |-> IF q = "Q1" THEN <<"c", "a", "t">>
                   ELSE IF q = "Q2" THEN <<"o", "x">>
                   ELSE <<"a", " ", "b">>,
      value    |-> v,
      category |-> [title |-> IF c = 1 THEN "T1" ELSE IF c = 2 THEN "T2" ELSE "T3"] ]

\* the options of the difficulty <select> that the model offers, as the
\* strings event.target.value delivers
FilterValues == {"any", "100"}

\* the clues the service holds for a category, in the order it returns them.
\* Every clue of this data set is worth 100 and was aired inside every date
\* window, so the body of a clue request is the same under every filter the
\* model offers and a request is identified by its category alone.
ServerClues(c) ==
    IF c = 1 THEN << Clue(1, "Q2", 100), Clue(1, "Q1", 100), Clue(1, "Q2", 100) >>
    ELSE IF c = 2 THEN << >>
    ELSE << Clue(3, "Q3", 100) >>

\* the body of GET /api/clues?category=c&...
CluesPage(req) == ServerClues(req.category)

RECURSIVE Repeat(_, _)
Repeat(x, n) == IF n = 0 THEN << >> ELSE <<x>> \o Repeat(x, n - 1)

\* the identifiers html.match(/popular\/\d+/g) finds in the search page of a
\* query, in page order
SearchPage(text) ==
    IF text = "a" THEN << 3, 1, 2, 1 >>
    ELSE IF text = "b" THEN << 1, 2 >> \o Repeat(3, MAX_CATEGORIES + 1)
    ELSE IF text = "c" THEN << 1 >>
    ELSE << >>

\* every clue response of at most MaxClues clues for category c
RECURSIVE SeqsUpTo(_, _)
SeqsUpTo(S, n) ==
    IF n = 0 THEN { << >> }
    ELSE LET shorter == SeqsUpTo(S, n - 1)
         IN  shorter \cup { Append(s, x) : s \in { t \in shorter : Len(t) = n - 1 }, x \in S }

AnyClues(c) == SeqsUpTo({ Clue(c, q, v) : q \in Questions, v \in RawValues }, MaxClues)

Min(a, b) == IF a < b THEN a ELSE b

(* --------------------- searchClues / normalisation --------------------- *)

\* lines 75-83: the request searchClues sends for an identifier
searchClues(categoryId) ==
    [category |-> categoryId]

\* Unique without the questionSet test of line 114
UniqueKeepsAll(clues) == clues

\* lines 111-118: keep the first clue of every question text
RECURSIVE UniqueFrom(_, _, _, _)
UniqueFrom(clues, k, questionSet, uniqueClues) ==
    IF k > Len(clues) THEN uniqueClues
    ELSE IF clues[k].question \notin questionSet
         THEN UniqueFrom(clues, k + 1, questionSet \cup {clues[k].question},
                         Append(uniqueClues, clues[k]))
         ELSE UniqueFrom(clues, k + 1, questionSet, uniqueClues)

Unique(clues) == UniqueFrom(clues, 1, {}, << >>)

\* DefaultValue without the assignment of line 121
DefaultValueSkipped(clue) == clue

\* line 121: clue.value = clue.value ? clue.value : 0
DefaultValue(clue) ==
    [clue EXCEPT !.value = IF clue.value # NULL /\ clue.value # 0 THEN clue.value ELSE 0]

DefaultValues(clues) == [k \in 1..Len(clues) |-> DefaultValue(clues[k])]

\* InsertClue with a comparator that also moves a clue in front of its equals
InsertClueBeforeEquals(sorted, clue, k) ==
    LET before == SelectSeq(sorted, LAMBDA c : c.value < clue.value)
        after  == SelectSeq(sorted, LAMBDA c : c.value >= clue.value)
    IN  before \o <<clue>> \o after

\* line 124: Array.prototype.sort with (clue1, clue2) => clue1.value - clue2.value,
\* a stable sort: a clue goes behind every clue that does not compare greater
RECURSIVE InsertClue(_, _, _)
InsertClue(sorted, clue, k) ==
    IF k > Len(sorted) THEN Append(sorted, clue)
    ELSE IF sorted[k].value - clue.value > 0
         THEN SubSeq(sorted, 1, k - 1) \o <<clue>> \o SubSeq(sorted, k, Len(sorted))
         ELSE InsertClue(sorted, clue, k + 1)

RECURSIVE SortFrom(_, _, _)
SortFrom(clues, k, sorted) ==
    IF k > Len(clues) THEN sorted
    ELSE SortFrom(clues, k + 1, InsertClue(sorted, clues[k], 1))

\* SortByValue without the sort of line 124
SortByValueSkipped(clues) == clues

SortByValue(clues) == SortFrom(clues, 1, << >>)

\* lines 110-124
UniqueClues(clues) == SortByValue(DefaultValues(Unique(clues)))

(* ------------------------------ Init ----------------------------------- *)

NoSource == [matchedIds |-> << >>, fetched |-> << >>]

\* a first visit: nothing is saved, the constructor takes INITIAL_STATE
Init ==
    /\ state = INITIAL_STATE
    /\ storage = NoSnapshot
    /\ runs = EmptyBag
    /\ source = NoSource
    /\ cards = << >>

(* ---------------------------- rendering -------------------------------- *)

\* a null clue: selectedClue of a card that shows its front
NoClue == [null |-> TRUE]

\* category.js lines 6-10 and 27-33: the state of a new Category component
\* (its category is the entry of the board at the same position)
NewCard == [selectedClue |-> NoClue, answer |-> << >>]

\* category.js lines 267-269 (Board.render): the categories are rendered
\* without keys, so the component at a position lives on while the list has
\* that position; new positions get new components
BoardCards(old, categories) ==
    [k \in 1..Len(categories) |-> IF k <= Len(old) THEN old[k] ELSE NewCard]

\* category.js lines 125-127 (isFavorite): favorites.some(fav => fav.question
\* === question) reads fav.question of a null entry unless an earlier entry
\* matched
IsFavoriteThrows(favorites, question) ==
    \E i \in 1..Len(favorites) :
        /\ favorites[i] = NoClue
        /\ \A j \in 1..(i - 1) : favorites[j] # NoClue /\ favorites[j].question # question

\* lines 243-345 and category.js lines 132-223: render returns; it throws a
\* TypeError when a field it dereferences is missing from the state, when an
\* answered record has a null clue (line 208), or when isFavorite of a clue
\* button meets a null favorite
RenderOk(st) ==
    /\ {"filters", "categories", "answered"} \subseteq DOMAIN st
    /\ \A n \in 1..Len(st.answered) : st.answered[n].clue # NoClue
    /\ LET favorites == IF "favorites" \in DOMAIN st THEN st.favorites ELSE << >>
       IN  \A k \in 1..Len(st.categories) :
               \A m \in 1..Min(5, Len(st.categories[k].clues)) :
                   ~ IsFavoriteThrows(favorites, st.categories[k].clues[m].question)

\* the component tree is on the page: the last render did not throw
Mounted == RenderOk(state)

(* ------------------------- one onSearch run ---------------------------- *)

NoRequest == [category |-> 0]

\* the locals of an onSearch call that is waiting for the search page
NewRun(text) ==
    [ pc         |-> "lookup",
      text       |-> text,
      matchedIds |-> << >>,
      idx        |-> 0,
      req        |-> NoRequest,
      categories |-> << >>,
      fetched    |-> << >> ]

ActiveRuns == BagToSet(runs)

Replace(r, s) == (runs (-) SetToBag({r})) (+) SetToBag({s})
Remove(r)     == runs (-) SetToBag({r})

\* Commit that adds the categories of the run to the ones in the state
CommitMerging(r, categories, fetched) ==
    /\ state' = [state EXCEPT !.searching = FALSE,
                              !.categories = state.categories \o categories]
    /\ storage' = state'
    /\ runs' = Remove(r)
    /\ source' = [matchedIds |-> r.matchedIds, fetched |-> fetched]
    /\ cards' = BoardCards(cards, state'.categories)

\* lines 140-146: setState({searching: false, categories}) and the save of
\* the state to localStorage, which end the run. On a component that was
\* unmounted by a render error setState changes nothing; the save still runs.
Commit(r, categories, fetched) ==
    /\ state' = IF Mounted
                THEN [state EXCEPT !.searching = FALSE, !.categories = categories]
                ELSE state
    /\ storage' = state'
    /\ runs' = Remove(r)
    /\ source' = IF Mounted
                 THEN [matchedIds |-> r.matchedIds, fetched |-> fetched]
                 ELSE source
    /\ cards' = IF Mounted THEN BoardCards(cards, categories) ELSE cards

\* lines 93-101 with st the state the handler starts from: the spinner is
\* switched on and the search page of the current search text is requested
BeginSearch(st) ==
    /\ state' = [st EXCEPT !.searching = TRUE]
    /\ runs' = runs (+) SetToBag({NewRun(st.searchText)})
    /\ UNCHANGED <<storage, source, cards>>

\* the Search button is clicked or a date field loses focus
OnSearch(limit) ==
    /\ BagCardinality(runs) < limit
    /\ BeginSearch(state)

\* lines 195-202: a difficulty is selected, then onSearch is called
SelectValue(value, limit) ==
    /\ BagCardinality(runs) < limit
    /\ BeginSearch([state EXCEPT !.filters.value = value])

\* lines 184-189
OnSearchTextChange(text) ==
    /\ state' = [state EXCEPT !.searchText = text]
    /\ UNCHANGED <<storage, runs, source, cards>>

\* the outcomes of the search request in which fetch and res.text() resolve:
\* the search page, an error page of a non-success status, a malformed body
LookupOutcomes == {"ok", "status", "malformed"}

\* line 104: the error page and the malformed body hold no popular/<digits>
MatchedIds(text, outcome) == IF outcome = "ok" THEN SearchPage(text) ELSE << >>

\* lines 101-109 (and 140-146 when nothing matched): the search request
\* resolves, the identifiers are extracted and the first clue request goes out
LookupResponse(r, outcome) ==
    /\ r.pc = "lookup"
    /\ LET matchedIds == MatchedIds(r.text, outcome)
       IN  IF matchedIds = << >>
           THEN Commit(r, << >>, << >>)
           ELSE /\ runs' = Replace(r, [r EXCEPT !.pc = "clues",
                                                !.matchedIds = matchedIds,
                                                !.idx = 1,
                                                !.req = searchClues(matchedIds[1])])
                /\ UNCHANGED <<state, storage, source, cards>>

\* lines 101-102: fetch or res.text() rejects; onSearch has no handler, its
\* promise rejects and the rest of the function never runs
LookupFail(r) ==
    /\ r.pc = "lookup"
    /\ runs' = Remove(r)
    /\ UNCHANGED <<state, storage, source, cards>>

\* Push that puts the new category in front
PushInFront(categories, category) == <<category>> \o categories

\* line 132: categories.push(category)
Push(categories, category) == Append(categories, category)

\* LimitReached with > in the place of >=
LimitReachedLate(categories) == Len(categories) > MAX_CATEGORIES

\* line 134: the maximum search result limit is reached
LimitReached(categories) == Len(categories) >= MAX_CATEGORIES

\* lines 109-146: the clue request of identifier idx resolves with clues; the
\* clues are filtered, defaulted and sorted, a non-empty category is pushed,
\* and the loop goes on to the next request or ends
CluesResponse(r, clues) ==
    /\ r.pc = "clues"
    /\ LET uniqueClues == UniqueClues(clues)
           pushed      == Len(uniqueClues) > 0
           categories  == IF pushed
                          THEN Push(r.categories,
                                    [title |-> uniqueClues[1].category.title,
                                     clues |-> uniqueClues])
                          ELSE r.categories
           fetched     == Append(r.fetched, clues)
       IN  IF (pushed /\ LimitReached(categories)) \/ r.idx = Len(r.matchedIds)
           THEN Commit(r, categories, fetched)
           ELSE /\ runs' = Replace(r, [r EXCEPT !.idx = r.idx + 1,
                                                !.req = searchClues(r.matchedIds[r.idx + 1]),
                                                !.categories = categories,
                                                !.fetched = fetched])
                /\ UNCHANGED <<state, storage, source, cards>>

\* lines 83 and 109: fetch or res.json() of the clue request rejects; the
\* rejection leaves searchClues and onSearch, which has no handler
CluesFail(r) ==
    /\ r.pc = "clues"
    /\ runs' = Remove(r)
    /\ UNCHANGED <<state, storage, source, cards>>

(* ------------------------ the other App handlers ------------------------ *)

\* lines 173-178 (the handler of the two date fields)
OnFilterChange(name, value) ==
    /\ state' = [state EXCEPT !.filters[name] = value]
    /\ UNCHANGED <<storage, runs, source, cards>>

\* onAnswer that puts the record in front
onAnswerInFront(clue, answer) ==
    [state EXCEPT !.answered = << [clue |-> clue, answer |-> answer] >> \o @]

\* lines 155-162: the state onAnswer sets
onAnswer(clue, answer) ==
    [state EXCEPT !.answered = Append(@, [clue |-> clue, answer |-> answer])]

\* lines 155-167: the record is appended and the state saved. When the
\* render of the new state throws, the state was assigned before and the
\* save in the continuation still runs.
OnAnswer(clue, answer) ==
    /\ state' = onAnswer(clue, answer)
    /\ storage' = state'
    /\ UNCHANGED <<runs, source, cards>>

\* lines 224-225: newFavList.some(fav => fav.question === clue.question)
\* throws a TypeError when it is called on a null clue or a null favorite
ToggleThrows(favorites, clue) ==
    /\ favorites # << >>
    /\ \/ clue = NoClue
       \/ IsFavoriteThrows(favorites, clue.question)

\* toggleFavorite without the test of line 225: the clue is always pushed
NewFavoritesAlwaysPushed(favorites, clue) == Append(favorites, clue)

\* lines 224-229: the new favorites list
NewFavorites(favorites, clue) ==
    IF favorites = << >> THEN << clue >>
    ELSE IF \E i \in 1..Len(favorites) : favorites[i].question = clue.question
         THEN SelectSeq(favorites, LAMBDA fav : fav.question # clue.question)
         ELSE Append(favorites, clue)

\* lines 223-238: the favorites are changed and the state saved; a TypeError
\* at line 225 rejects the promise of toggleFavorite and changes nothing
ToggleFavorite(clue) ==
    IF ToggleThrows(state.favorites, clue)
    THEN UNCHANGED vars
    ELSE /\ state' = [state EXCEPT !.favorites = NewFavorites(@, clue)]
         /\ storage' = state'
         /\ UNCHANGED <<runs, source, cards>>

(* ------------------------- the Category cards -------------------------- *)

\* markClue that never finds a record of the clue
markClueNeverAnswered(clue) == "primary"

\* category.js lines 86-97
markClue(clue) ==
    IF clue = NoClue THEN "primary"
    ELSE LET clueMatchedAnswers ==
                 SelectSeq(state.answered, LAMBDA answer : answer.clue.id = clue.id)
         IN  IF Len(clueMatchedAnswers) = 0 THEN "primary"
             ELSE IF \E n \in 1..Len(clueMatchedAnswers) :
                        clueMatchedAnswers[n].answer = clue.answer
                  THEN "success"
                  ELSE "danger"

\* category.js lines 64-71: the state setClue sets
setClue(card, clue) ==
    [selectedClue |-> IF card.selectedClue # NoClue THEN NoClue ELSE clue,
     answer       |-> << >>]

\* category.js lines 134-140: the clues that have a button on card k
FirstFive(k) ==
    { state.categories[k].clues[m] : m \in 1..Min(5, Len(state.categories[k].clues)) }

\* category.js lines 137 and 158: a clue button (a clue) or the close button
\* (NoClue) of card k is pressed
SetClue(k, clue) ==
    /\ cards' = [cards EXCEPT ![k] = setClue(@, clue)]
    /\ UNCHANGED <<state, storage, runs, source>>

\* category.js lines 181-193 and 53-58: the answer field is rendered while
\* markClue gives "primary"; text is typed into it
OnChange(k, text) ==
    /\ markClue(cards[k].selectedClue) = "primary"
    /\ cards' = [cards EXCEPT ![k].answer = text]
    /\ UNCHANGED <<state, storage, runs, source>>

\* category.js lines 181-202 and 77-80: the submit button is rendered while
\* markClue gives "primary"; it hands the selected clue and the answer to
\* onAnswer and turns the card
SubmitAnswer(k) ==
    /\ markClue(cards[k].selectedClue) = "primary"
    /\ state' = onAnswer(cards[k].selectedClue, cards[k].answer)
    /\ storage' = state'
    /\ cards' = IF RenderOk(state')
                THEN [cards EXCEPT ![k] = setClue(@, NoClue)]
                ELSE cards
    /\ UNCHANGED <<runs, source>>

\* category.js lines 164-168: the heart button of card k
HeartClick(k) == ToggleFavorite(cards[k].selectedClue)

\* the characters /\S/ does not match
Whitespace == {" "}

Mask(text) == [i \in 1..Len(text) |-> IF text[i] \in Whitespace THEN text[i] ELSE "*"]

\* getHint that masks the whole text only when it has fewer than 2 characters
getHintShort(clue) ==
    LET hint == IF clue = NoClue THEN << >> ELSE clue.answer
    IN  IF Len(hint) < 2 THEN Mask(hint)
        ELSE <<hint[1]>> \o Mask(SubSeq(hint, 2, Len(hint) - 1)) \o <<hint[Len(hint)]>>

\* category.js lines 111-119
getHint(clue) ==
    LET hint == IF clue = NoClue THEN << >> ELSE clue.answer
    IN  IF Len(hint) < 3 THEN Mask(hint)
        ELSE <<hint[1]>> \o Mask(SubSeq(hint, 2, Len(hint) - 1)) \o <<hint[Len(hint)]>>

\* lines 207-209: getCorrectAnswers reads answer.clue.answer of every record
GetCorrectAnswersThrows(answered) ==
    \E n \in 1..Len(answered) : answered[n].clue = NoClue

getCorrectAnswers(answered) ==
    SelectSeq(answered, LAMBDA answer : answer.answer = answer.clue.answer)

\* line 216: reduce((sum, num) => sum + num, 0)
RECURSIVE Reduce(_, _, _)
Reduce(values, n, sum) ==
    IF n > Len(values) THEN sum ELSE Reduce(values, n + 1, sum + values[n])

\* lines 214-217: the score, or the TypeError of getCorrectAnswers
calculateEarnings(answered) ==
    IF GetCorrectAnswersThrows(answered) THEN [error |-> "TypeError"]
    ELSE LET kept == SelectSeq(getCorrectAnswers(answered),
                               LAMBDA answer : answer.clue.value \notin {NULL, 0})
             correctValues == [n \in 1..Len(kept) |-> kept[n].clue.value]
         IN  [value |-> Reduce(correctValues, 1, 0)]

(* ------------------------------ startup -------------------------------- *)

\* an 'app-state' item that JSON.parse rejects
Unparsable == [unparsable |-> TRUE]

\* an 'app-state' item that parses to an object without answered, filters
\* and categories
PartialSnapshot == [searchText |-> "c"]

\* the state a former session saved after its search for "c"
SavedState ==
    [INITIAL_STATE EXCEPT
        !.searchText = "c",
        !.categories = << [title |-> "T1",
                           clues |-> << Clue(1, "Q2", 100), Clue(1, "Q1", 100) >>] >>]

\* the state a former session saved with a clue of no value and a clue of 200
SavedBoard ==
    [INITIAL_STATE EXCEPT
        !.searchText = "c",
        !.categories = << [title |-> "T1",
                           clues |-> << Clue(1, "Q1", 0), Clue(1, "Q2", 200) >>] >>]

\* the state a former session saved after a search whose page named
\* identifier 1 twice, as SearchPage("a") does: the category is there twice
SavedTwice ==
    [INITIAL_STATE EXCEPT
        !.searchText = "a",
        !.categories =
            LET category == [title |-> "T1", clues |-> UniqueClues(ServerClues(1))]
            IN  << category, category >>]

\* the state a former session saved with one clue whose answer is text
SavedAnswer(text) ==
    [INITIAL_STATE EXCEPT
        !.categories = << [title |-> "T1",
                           clues |-> << [Clue(1, "Q1", 100) EXCEPT !.answer = text] >>] >>]

\* the page before the App is constructed
Unloaded == [unloaded |-> TRUE]

\* lines 53-66: the state the constructor sets for an 'app-state' item; a
\* SyntaxError of JSON.parse leaves the constructor and no App exists
Constructor(item) ==
    IF item = NoSnapshot THEN INITIAL_STATE
    ELSE IF item = Unparsable THEN [error |-> "SyntaxError"]
    ELSE item

\* the Category components of the first render
FirstCards(st) == IF RenderOk(st) THEN BoardCards(<< >>, st.categories) ELSE << >>

\* the page is loaded or reloaded: the calls in flight are gone and the App
\* is constructed from the saved item
Load ==
    /\ state' = Constructor(storage)
    /\ runs' = EmptyBag
    /\ source' = NoSource
    /\ cards' = FirstCards(state')
    /\ UNCHANGED storage

\* the App of a page that was loaded with one of the items saved
InitLoaded(items) ==
    /\ storage \in items
    /\ state = Constructor(storage)
    /\ runs = EmptyBag
    /\ source = NoSource
    /\ cards = FirstCards(state)

\* a page that is about to be loaded with one of the items saved
InitUnloaded(items) ==
    /\ storage \in items
    /\ state = Unloaded
    /\ runs = EmptyBag
    /\ source = NoSource
    /\ cards = << >>

(* --------------------------- specifications ---------------------------- *)

\* the search texts typed in Spec and in SpecAnyClues
Texts      == {"", "a", "b"}
ShortTexts == {"", "c"}

\* the search pipeline against the fixed service data, with up to MaxRuns
\* overlapping searches
Next ==
    \/ OnSearch(MaxRuns)
    \/ \E value \in FilterValues : SelectValue(value, MaxRuns)
    \/ \E text \in Texts : OnSearchTextChange(text)
    \/ \E r \in ActiveRuns, outcome \in LookupOutcomes : LookupResponse(r, outcome)
    \/ \E r \in ActiveRuns : LookupFail(r)
    \/ \E r \in ActiveRuns : CluesResponse(r, CluesPage(r.req))
    \/ \E r \in ActiveRuns : CluesFail(r)

Spec == Init /\ [][Next]_vars

\* the searches of a first visit, up to the first result that is saved: one
\* search at a time, of at most one identifier, whose clue request is answered
\* by any sequence of at most MaxClues clues
FirstSearch ==
    /\ storage = NoSnapshot
    /\ OnSearch(1)

NextAnyClues ==
    \/ FirstSearch
    \/ \E text \in ShortTexts : OnSearchTextChange(text)
    \/ \E r \in ActiveRuns, outcome \in LookupOutcomes : LookupResponse(r, outcome)
    \/ \E r \in ActiveRuns : LookupFail(r)
    \/ \E r \in ActiveRuns : \E clues \in AnyClues(r.req.category) : CluesResponse(r, clues)
    \/ \E r \in ActiveRuns : CluesFail(r)

SpecAnyClues == Init /\ [][NextAnyClues]_vars

\* most answers one session submits
MaxAnswers == 2

DateNames == {"min_date", "max_date"}
Dates     == {"2000-01-01"}

\* the answer typed in SpecApp: right for Q1, wrong for Q2
AnswerTexts == { <<"c", "a", "t">> }

\* the clues a card of the board can hand to onAnswer and toggleFavorite
BoardClues ==
    { state.categories[k].clues[m] :
        k \in 1..Len(state.categories), m \in 1..2 } \cup {NoClue}

\* what the user can do on the page
UserActsOnApp ==
    \/ OnSearch(1)
    \/ \E value \in FilterValues : SelectValue(value, 1)
    \/ \E name \in DateNames, value \in Dates : OnFilterChange(name, value)
    \/ \E text \in ShortTexts : OnSearchTextChange(text)
    \/ \E clue \in BoardClues, answer \in AnswerTexts :
          Len(state.answered) < MaxAnswers /\ OnAnswer(clue, answer)
    \/ \E clue \in BoardClues : ToggleFavorite(clue)

\* every App handler and search step, one search at a time, on a page that was
\* loaded with nothing or with SavedState saved
NextApp ==
    \/ Mounted /\ UserActsOnApp
    \/ Load
    \/ \E r \in ActiveRuns, outcome \in LookupOutcomes : LookupResponse(r, outcome)
    \/ \E r \in ActiveRuns : LookupFail(r)
    \/ \E r \in ActiveRuns : CluesResponse(r, CluesPage(r.req))
    \/ \E r \in ActiveRuns : CluesFail(r)

SpecApp == InitLoaded({NoSnapshot, SavedState}) /\ [][NextApp]_vars

\* the same page from before its load, with any of the items saved
SpecStartup ==
    InitUnloaded({NoSnapshot, Unparsable, PartialSnapshot, SavedState}) /\ [][NextApp]_vars

\* the texts typed into the answer field of a card
TypedTexts == { <<"c", "a", "t">>, <<"o", "x">> }

\* what the user can do on the cards of the board
UserActsOnBoard ==
    \/ \E k \in 1..Len(cards) : \E clue \in FirstFive(k) \cup {NoClue} : SetClue(k, clue)
    \/ \E k \in 1..Len(cards), text \in TypedTexts : OnChange(k, text)
    \/ \E k \in 1..Len(cards) : Len(state.answered) < MaxAnswers /\ SubmitAnswer(k)
    \/ \E k \in 1..Len(cards) : HeartClick(k)

NextBoard == Mounted /\ UserActsOnBoard

\* the cards of a page that was loaded with SavedBoard saved
SpecBoard == InitLoaded({SavedBoard}) /\ [][NextBoard]_vars

NextTwice == (Mounted /\ UserActsOnBoard) \/ Load

\* the cards of a page that was loaded with SavedTwice saved, and reloads
SpecTwice == InitLoaded({SavedTwice}) /\ [][NextTwice]_vars

\* longest answer text of a clue in SpecHint
MaxAnswerLen == 3

HintChars == {"c", "a", "t", "o", "x", " "}

NextHint ==
    Mounted /\ \E k \in 1..Len(cards) : \E clue \in FirstFive(k) \cup {NoClue} : SetClue(k, clue)

\* a card whose one clue has any answer text of at most MaxAnswerLen
\* characters is turned over and back
SpecHint ==
    InitLoaded({ SavedAnswer(text) : text \in SeqsUpTo(HintChars, MaxAnswerLen) })
        /\ [][NextHint]_vars

(* ------------------------------ claims --------------------------------- *)

Records == { state.categories[k] : k \in 1..Len(state.categories) }

\* C1: the category list in the App state never holds more than
\* MAX_CATEGORIES records, whatever searches ran and overlapped.
CategoriesWithinCapacity == Len(state.categories) <= MAX_CATEGORIES

\* a search that stopped at the limit with identifiers left was committed
\* while another search was in flight
CapacityReachedWhileOverlapping ==
    /\ Len(state.categories) = MAX_CATEGORIES
    /\ Len(source.fetched) < Len(source.matchedIds)
    /\ runs # EmptyBag

\* C2: no two clues of a committed category record have the same question
\* text.
NoDuplicateQuestions ==
    \A record \in Records :
        \A i, j \in 1..Len(record.clues) :
            i < j => record.clues[i].question # record.clues[j].question

HasDuplicateQuestion(clues) ==
    \E i, j \in 1..Len(clues) : i < j /\ clues[i].question = clues[j].question

\* a category was committed whose clue response repeated a question
DuplicateQuestionFetched ==
    /\ Len(source.fetched) = 1
    /\ HasDuplicateQuestion(source.fetched[1])
    /\ Len(state.categories) = 1
    /\ Len(state.categories[1].clues) > 1

\* C3: the clues of a committed category record are in non-decreasing order
\* of value.
SortedByValue ==
    \A record \in Records :
        \A i, j \in 1..Len(record.clues) :
            i < j => record.clues[i].value <= record.clues[j].value

\* a category was committed whose clue response had a dearer clue in front
\* of a cheaper one of another question
UnsortedFetched ==
    /\ Len(source.fetched) = 1
    /\ Len(state.categories) = 1
    /\ \E i, j \in 1..Len(source.fetched[1]) :
          /\ i < j
          /\ source.fetched[1][i].value = 200
          /\ source.fetched[1][j].value = 100
          /\ source.fetched[1][i].question # source.fetched[1][j].question
          /\ ~ \E h \in 1..(j - 1) :
                 source.fetched[1][h].question = source.fetched[1][j].question

\* the original statement of C4: every fetched clue without a value is in
\* the committed record with value 0, and no committed clue lacks a value.
EveryNullClueCommittedAsZero ==
    /\ \A record \in Records :
          \A k \in 1..Len(record.clues) : record.clues[k].value # NULL
    /\ \A n \in 1..Len(source.fetched) :
          \A m \in 1..Len(source.fetched[n]) :
              source.fetched[n][m].value = NULL =>
                  \E record \in Records :
                      \E k \in 1..Len(record.clues) :
                          /\ record.clues[k] = [source.fetched[n][m] EXCEPT !.value = 0]

FirstOfQuestion(clues, m) ==
    \A h \in 1..(m - 1) : clues[h].question # clues[m].question

\* C4 (amended): every fetched clue without a value that is the first of its
\* question text in the response is in the committed record with value 0,
\* and no committed clue lacks a value.
KeptNullClueCommittedAsZero ==
    /\ \A record \in Records :
          \A k \in 1..Len(record.clues) : record.clues[k].value # NULL
    /\ \A n \in 1..Len(source.fetched) :
          \A m \in 1..Len(source.fetched[n]) :
              (source.fetched[n][m].value = NULL
                 /\ FirstOfQuestion(source.fetched[n], m)) =>
                  \E record \in Records :
                      \E k \in 1..Len(record.clues) :
                          /\ record.clues[k] = [source.fetched[n][m] EXCEPT !.value = 0]

\* a category was committed whose clue response held a clue without a value
\* as the first of its question
NullClueFetched ==
    /\ Len(source.fetched) = 1
    /\ Len(state.categories) = 1
    /\ \E m \in 1..Len(source.fetched[1]) :
          /\ source.fetched[1][m].value = NULL
          /\ FirstOfQuestion(source.fetched[1], m)

\* the category record line 127 makes of the sorted clues
CategoryOf(uniqueClues) ==
    [title |-> uniqueClues[1].category.title, clues |-> uniqueClues]

\* the records of the identifiers of a search page that yield a clue, in page
\* order
NonEmptyRecords(matchedIds) ==
    LET clues == [k \in 1..Len(matchedIds) |->
                     UniqueClues(CluesPage(searchClues(matchedIds[k])))]
        found == SelectSeq(clues, LAMBDA c : c # << >>)
    IN  [k \in 1..Len(found) |-> CategoryOf(found[k])]

\* C5: the committed list is the records of the first min(MAX_CATEGORIES, k)
\* identifiers that yield a clue, in the order of the search response, where
\* k is the number of such identifiers; every committed record has a clue.
FirstNonEmptyInDiscoveryOrder ==
    LET found == NonEmptyRecords(source.matchedIds)
    IN  /\ state.categories = SubSeq(found, 1, Min(MAX_CATEGORIES, Len(found)))
        /\ \A record \in Records : Len(record.clues) > 0

\* a search was committed whose page named categories of different titles and
\* an empty category among them
EmptyCategorySkipped ==
    /\ Len(state.categories) >= 2
    /\ state.categories[1].title # state.categories[2].title
    /\ \E k \in 1..Len(source.fetched) : source.fetched[k] = << >>

\* the clues of a response that are the first of their question text, as
\* positions of the response
Kept(clues) == { m \in 1..Len(clues) : FirstOfQuestion(clues, m) }

ValueOrZero(clue) == IF clue.value \in {NULL, 0} THEN 0 ELSE clue.value

\* the place of the kept clue m in the result: behind the kept clues of
\* smaller value and behind the earlier kept clues of equal value
Place(clues, m) ==
    1 + Cardinality({ h \in Kept(clues) :
                        \/ ValueOrZero(clues[h]) < ValueOrZero(clues[m])
                        \/ ValueOrZero(clues[h]) = ValueOrZero(clues[m]) /\ h < m })

\* the reference result of C6 for a clue response
Reference(clues) ==
    [p \in 1..Cardinality(Kept(clues)) |->
        LET m == CHOOSE m \in Kept(clues) : Place(clues, m) = p
        IN  [clues[m] EXCEPT !.value = ValueOrZero(clues[m])]]

\* C6: the clue sequence of a category record is the reference result for
\* its clue response: first of each question kept, value defaulted to 0,
\* ascending by value with ties in their order after the removal.
CluesAreReference ==
    LET refs  == [n \in 1..Len(source.fetched) |-> Reference(source.fetched[n])]
        found == SelectSeq(refs, LAMBDA c : c # << >>)
    IN  /\ Len(state.categories) = Len(found)
        /\ \A k \in 1..Len(found) : state.categories[k].clues = found[k]

\* the example of C6 was fetched and committed as [Q1/0, Q2/100]
ExampleCommitted ==
    /\ source.fetched = << << Clue(1, "Q1", NULL), Clue(1, "Q1", 200), Clue(1, "Q2", 100) >> >>
    /\ Len(state.categories) = 1
    /\ state.categories[1].clues =
          << [Clue(1, "Q1", NULL) EXCEPT !.value = 0], Clue(1, "Q2", 100) >>

\* what a run does in which only the failing identifier is skipped
SkipIdentifier(r) ==
    IF r.idx = Len(r.matchedIds)
    THEN Commit(r, r.categories, r.fetched)
    ELSE /\ runs' = Replace(r, [r EXCEPT !.idx = r.idx + 1,
                                         !.req = searchClues(r.matchedIds[r.idx + 1])])
         /\ UNCHANGED <<state, storage, source, cards>>

\* C7: a failing clue request makes the run skip that identifier only; the
\* run goes on with the next identifier or commits what it has.
FailedIdentifierSkipped ==
    [][\A r \in ActiveRuns : CluesFail(r) => SkipIdentifier(r)]_vars

\* C8: no state has searching = true with no search running (a retrieval
\* failure ends the search with searching = false).
SearchingOnlyWhileRunning == state.searching => runs # EmptyBag

\* C9: a search lookup that fails (network error, non-success status,
\* malformed body) leaves the category list of the App state as it was.
FailedLookupKeepsCategories ==
    [][\A r \in ActiveRuns :
          (\/ LookupFail(r)
           \/ LookupResponse(r, "status")
           \/ LookupResponse(r, "malformed")) => state'.categories = state.categories]_vars

\* C10: no onSearch run is started while another one is running; at most one
\* search pipeline is active.
OneSearchAtATime == BagCardinality(runs) <= 1

\* C15: normalising a normalised clue sequence changes nothing: the filter,
\* default and sort steps applied to the clues of a committed record give
\* the same clues in the same order.
NormalisationIdempotent ==
    \A record \in Records : UniqueClues(record.clues) = record.clues

\* a record was committed whose clues tie in value and differ from the
\* response they were made of
TiedCluesCommitted ==
    /\ Len(source.fetched) = 1
    /\ Len(state.categories) = 1
    /\ state.categories[1].clues # source.fetched[1]
    /\ \E i, j \in 1..Len(state.categories[1].clues) :
          i < j /\ state.categories[1].clues[i].value = state.categories[1].clues[j].value

\* C17: a run has one clue request in flight, the one of the identifier at
\* its position in the search page; the requests of all earlier identifiers
\* have completed, and no request is in flight once the run holds
\* MAX_CATEGORIES categories.
RequestsOneAtATime ==
    \A r \in ActiveRuns :
        /\ r.pc = "lookup" => r.req = NoRequest /\ r.fetched = << >>
        /\ r.pc = "clues" =>
              /\ r.idx \in 1..Len(r.matchedIds)
              /\ r.req = searchClues(r.matchedIds[r.idx])
              /\ Len(r.fetched) = r.idx - 1
              /\ Len(r.categories) < MAX_CATEGORIES

\* a run that skipped an empty category has one category to go
LastRequestBeforeLimit ==
    \E r \in ActiveRuns :
        /\ r.pc = "clues"
        /\ Len(r.categories) = MAX_CATEGORIES - 1
        /\ r.idx > MAX_CATEGORIES
        /\ r.idx < Len(r.matchedIds)

\* the list a run commits when it runs alone
ResultOf(r) ==
    IF r.pc = "lookup" THEN << >>
    ELSE LET found == NonEmptyRecords(r.matchedIds)
         IN  SubSeq(found, 1, Min(MAX_CATEGORIES, Len(found)))

\* the step is the last one of run r: its response arrives and it returns
Finishes(r) ==
    /\ \/ \E outcome \in LookupOutcomes : LookupResponse(r, outcome)
       \/ CluesResponse(r, CluesPage(r.req))
    /\ runs' = Remove(r)

\* C18: when runs overlap, a run that finishes leaves its own complete
\* result in the state, whatever the other runs have accumulated, and the
\* other runs go on; the list in the state is the result of the run that
\* finished last.
LastWriteWins ==
    [][\A r \in ActiveRuns :
          (BagCardinality(runs) >= 2 /\ Finishes(r)) =>
              /\ state'.categories = ResultOf(r)
              /\ runs' (+) SetToBag({r}) = runs]_vars

\* a run has committed categories while another run is in flight
CommittedWhileOverlapping ==
    /\ runs # EmptyBag
    /\ ~ state.searching
    /\ Len(state.categories) > 0
    /\ \E r \in ActiveRuns : r.pc = "clues" /\ r.matchedIds # source.matchedIds

\* C19: searching = true exactly while a run has started and not committed.
SearchingTracksRuns == state.searching <=> runs # EmptyBag

\* C12: the answered list only grows at its end: a step leaves it as it is
\* or is an onAnswer that appends one record {clue, answer}.
AnsweredAppendOnly ==
    [][\/ state'.answered = state.answered
       \/ \E clue \in BoardClues, answer \in AnswerTexts :
             /\ OnAnswer(clue, answer)
             /\ state'.answered =
                   Append(state.answered, [clue |-> clue, answer |-> answer])]_vars

\* two answers were recorded, a favorite chosen and a filter set while a
\* search is in flight
AnsweredWhileSearching ==
    /\ Len(state.answered) = 2
    /\ state.answered[1] # state.answered[2]
    /\ state.favorites # << >>
    /\ state.filters.min_date # UNDEFINED
    /\ runs # EmptyBag

\* C13: when a mutating user action has completed (a filter or the search
\* text changed, an answer recorded, a favorite toggled, a search committed)
\* the saved snapshot equals the App state.
SnapshotFollowsState ==
    [][(\/ \E name \in DateNames, value \in Dates : OnFilterChange(name, value)
        \/ \E text \in ShortTexts : OnSearchTextChange(text)
        \/ \E clue \in BoardClues, answer \in AnswerTexts : OnAnswer(clue, answer)
        \/ \E clue \in BoardClues : ToggleFavorite(clue)
        \/ \E r \in ActiveRuns : Finishes(r)) => storage' = state']_vars

\* C14: a page loaded with no snapshot or a malformed one starts in
\* INITIAL_STATE, and its render raises no error.
MalformedSnapshotDiscarded ==
    [][(Load /\ storage \in {NoSnapshot, Unparsable, PartialSnapshot}) =>
          (state' = INITIAL_STATE /\ RenderOk(state'))]_vars

\* the records whose submitted text equals the answer text of their clue
CorrectRecords(answered) ==
    { n \in 1..Len(answered) :
        answered[n].clue # NoClue /\ answered[n].answer = answered[n].clue.answer }

RECURSIVE SumOfValues(_, _)
SumOfValues(answered, records) ==
    IF records = {} THEN 0
    ELSE LET n == CHOOSE n \in records : TRUE
         IN  answered[n].clue.value + SumOfValues(answered, records \ {n})

\* C11: the score calculateEarnings gives is the sum of clue.value over the
\* answered records whose text equals the answer text of their clue.
ScoreIsSumOfCorrect ==
    calculateEarnings(state.answered) =
        [value |-> SumOfValues(state.answered, CorrectRecords(state.answered))]

\* the answer text of the clue a card shows, "" without a clue
ShownAnswer(card) == IF card.selectedClue = NoClue THEN << >> ELSE card.selectedClue.answer

\* C16: the hint has the length of the answer text; whitespace stays; a
\* character that is not whitespace is "*" when the text has fewer than 3
\* characters or the character is neither the first nor the last, and is
\* kept otherwise; without a clue the hint is empty.
HintMasksAnswer ==
    \A k \in 1..Len(cards) :
        LET text == ShownAnswer(cards[k])
            hint == getHint(cards[k].selectedClue)
        IN  /\ Len(hint) = Len(text)
            /\ cards[k].selectedClue = NoClue => hint = << >>
            /\ \A i \in 1..Len(text) :
                  hint[i] = IF text[i] \in Whitespace THEN text[i]
                            ELSE IF Len(text) < 3 \/ (1 < i /\ i < Len(text)) THEN "*"
                            ELSE text[i]

\* the hint of "cat" is shown as "c*t"
HintOfCatShown ==
    \E k \in 1..Len(cards) :
        /\ ShownAnswer(cards[k]) = <<"c", "a", "t">>
        /\ getHint(cards[k].selectedClue) = <<"c", "*", "t">>

NoTwoFavoritesOfAQuestion ==
    \A i, j \in 1..Len(state.favorites) :
        (i < j /\ state.favorites[i] # NoClue /\ state.favorites[j] # NoClue) =>
            state.favorites[i].question # state.favorites[j].question

\* the favorites after a toggle of clue, as C20 states it
Flipped(favorites, clue) ==
    IF \E i \in 1..Len(favorites) : favorites[i].question = clue.question
    THEN SelectSeq(favorites, LAMBDA fav : fav.question # clue.question)
    ELSE favorites \o << clue >>

\* C20: no two favorites have the same question text, and a toggleFavorite
\* of a clue removes the favorites of its question when there is one and
\* adds the clue at the end otherwise, the other favorites staying in order.
FavoritesFlip ==
    /\ []NoTwoFavoritesOfAQuestion
    /\ [][\A k \in 1..Len(cards) :
             (cards[k].selectedClue # NoClue /\ HeartClick(k)) =>
                 state'.favorites = Flipped(state.favorites, cards[k].selectedClue)]_vars

\* two clues are favorites and saved
TwoFavorites ==
    /\ Len(state.favorites) = 2
    /\ state.favorites[1].question = "Q2"
    /\ storage = state

\* C21: no record of the answered list has a null clue.
EveryAnswerHasAClue ==
    \A n \in 1..Len(state.answered) : state.answered[n].clue # NoClue

\* C22: the answered list holds at most one record for a clue id.
AnsweredOncePerClue ==
    \A i, j \in 1..Len(state.answered) :
        (i < j /\ state.answered[i].clue # NoClue /\ state.answered[j].clue # NoClue) =>
            state.answered[i].clue.id # state.answered[j].clue.id

\* two cards show the same clue, which has been answered on one of them
SameClueOnTwoCardsAnswered ==
    /\ Len(cards) = 2
    /\ cards[1].selectedClue # NoClue
    /\ cards[2].selectedClue = cards[1].selectedClue
    /\ \E n \in 1..Len(state.answered) :
          /\ state.answered[n].clue # NoClue
          /\ state.answered[n].clue.id = cards[1].selectedClue.id

====
